---- MODULE Spec2Model ----
(***************************************************************************)
(* hexo-deployer-tencent: incremental upload of a local directory to an    *)
(* object store under a concurrency limiter, reconciliation of orphaned    *)
(* remote keys, derivation of cache-invalidation URLs and their dispatch   *)
(* to one of two cache backends (flat CDN purge, EdgeOne zone/quota purge).*)
(*                                                                         *)
(* Strings are sequences of one-character strings, so that startsWith,     *)
(* endsWith, split, replace and toLowerCase are computed on characters.    *)
(***************************************************************************)
EXTENDS Integers, Sequences, FiniteSets, TLC

(***************************************************************************)
(* Bounds of the model.                                                    *)
(***************************************************************************)
MaxFiles == 2
MaxConcurrency == 2
MaxFailures == 5
MaxKeys == 2
MaxBatches == 5
MaxSmallUrls == 3
MaxChanged == 2
MaxRules == 2

(***************************************************************************)
(* Program constants.                                                      *)
(***************************************************************************)
Retries == 3
cdnBatchSize == 1000
freeBatchLimit == 500
paidBatchSize == 1000
defaultDailyLimit == 1000

(***************************************************************************)
(* String helpers (JavaScript String.prototype semantics on characters).   *)
(***************************************************************************)
StartsWith(s, p) ==
  /\ Len(p) <= Len(s)
  /\ SubSeq(s, 1, Len(p)) = p

EndsWith(s, p) ==
  /\ Len(p) <= Len(s)
  /\ SubSeq(s, Len(s) - Len(p) + 1, Len(s)) = p

UpperChars == <<"A","B","C","D","E","F","G","H","I","J","K","L","M",
                "N","O","P","Q","R","S","T","U","V","W","X","Y","Z">>
LowerChars == <<"a","b","c","d","e","f","g","h","i","j","k","l","m",
                "n","o","p","q","r","s","t","u","v","w","x","y","z">>

UpperSet == {UpperChars[i] : i \in 1..Len(UpperChars)}

LowerChar(c) ==
  IF c \in UpperSet
  THEN LowerChars[CHOOSE i \in 1..Len(UpperChars) : UpperChars[i] = c]
  ELSE c

ToLowerCase(s) == [i \in 1..Len(s) |-> LowerChar(s[i])]

\* Position of the last occurrence of character c in s, 0 when there is none.
LastIndexOf(s, c) ==
  IF \E i \in 1..Len(s) : s[i] = c
  THEN CHOOSE i \in 1..Len(s) : s[i] = c /\ \A j \in (i+1)..Len(s) : s[j] # c
  ELSE 0

\* Position of the first occurrence of character c in s, 0 when there is none.
IndexOf(s, c) ==
  IF \E i \in 1..Len(s) : s[i] = c
  THEN CHOOSE i \in 1..Len(s) : s[i] = c /\ \A j \in 1..(i-1) : s[j] # c
  ELSE 0

\* s.replace(/"/g, '')
StripQuotes(s) == SelectSeq(s, LAMBDA c : c # "\"")

\* path.extname(file): from the last '.' of the last path segment to its end;
\* empty when the segment has no '.' or only a leading one.
ExtName(file) ==
  LET base == SubSeq(file, LastIndexOf(file, "/") + 1, Len(file))
      d == LastIndexOf(base, ".")
  IN IF d <= 1 THEN <<>> ELSE SubSeq(base, d, Len(base))

(***************************************************************************)
(* The local tree, the bucket and the configuration a deploy is run with.  *)
(***************************************************************************)
K_index    == <<"i","n","d","e","x",".","h","t","m","l">>
K_subindex == <<"b","/","i","n","d","e","x",".","h","t","m","l">>
K_xindex   == <<"x","i","n","d","e","x",".","h","t","m","l">>
K_script   == <<"j","s","/","a",".","J","S">>
K_jsx      == <<"j","s","x">>
K_old      == <<"a",".","o","l","d">>

\* Keys in the order the file system and the bucket enumerate them; the
\* bucket lists its keys in the order of their characters.
LocalKeyOrder == <<K_index, K_script, K_jsx>>
KeyOrder == <<K_old, K_subindex, K_index, K_script, K_jsx, K_xindex>>
AllKeys == {KeyOrder[i] : i \in 1..Len(KeyOrder)}

Range(s) == {s[i] : i \in 1..Len(s)}

\* Content digests (hex MD5, shortened) and the ETags the store answers with.
DigestA == <<"a","1">>
DigestB == <<"b","2">>
Quote(d) == <<"\"">> \o d \o <<"\"">>
NoObj == <<>>

\* calculateMD5: the digest of the file's content.
calculateMD5(key) == DigestA

\* validateConfig: ignore_paths lose one leading and one trailing slash, empty
\* entries are dropped first; ignore_extensions are lowercased.
NormalizeIgnorePath(p) ==
  LET normalized == IF StartsWith(p, <<"/">>) THEN SubSeq(p, 2, Len(p)) ELSE p
  IN IF EndsWith(normalized, <<"/">>)
     THEN SubSeq(normalized, 1, Len(normalized) - 1)
     ELSE normalized

validateDomain(item) ==
  LET kept == SelectSeq(item.ignore_paths, LAMBDA p : p # <<>>)
  IN [domain |-> item.domain,
      ignorePaths |-> [n \in 1..Len(kept) |-> NormalizeIgnorePath(kept[n])],
      ignoreExtensions |-> [n \in 1..Len(item.ignore_extensions) |->
                              ToLowerCase(item.ignore_extensions[n])]]

Https == <<"h","t","t","p","s",":","/","/">>
Http  == <<"h","t","t","p",":","/","/">>
H_a   == <<"a",".","c","o">>
H_xa  == <<"x","a",".","c","o">>
H_sub == <<"s",".","a",".","c","o">>
H_b   == <<"b",".","i","o">>

P_js      == <<"j","s">>
P_jsSlash == <<"/","j","s","/">>
P_jsx     == <<"j","s","x">>
P_root    == <<"/">>
E_js      == <<".","j","s">>
E_JS      == <<".","J","S">>
E_html    == <<".","h","t","m","l">>

\* cdn_domains entries as written in _config.yml.
RawRules ==
  { [domain |-> Https \o H_a,  ignore_paths |-> <<>>, ignore_extensions |-> <<>>],
    [domain |-> Https \o H_a,  ignore_paths |-> <<P_jsSlash>>, ignore_extensions |-> <<>>],
    [domain |-> Https \o H_a,  ignore_paths |-> <<P_root, P_jsx>>, ignore_extensions |-> <<E_JS>>],
    [domain |-> Http \o H_xa,  ignore_paths |-> <<P_js>>, ignore_extensions |-> <<E_html>>],
    [domain |-> Https \o H_b,  ignore_paths |-> <<>>, ignore_extensions |-> <<E_js>>] }

(***************************************************************************)
(* URL derivation (main, the cache-refresh block).                         *)
(***************************************************************************)
IndexSuffix == <<"/","i","n","d","e","x",".","h","t","m","l">>

\* Variant: the prefix test without the separator.
IsIgnoredPathNoSeparator(file, ignorePaths) ==
  \E i \in 1..Len(ignorePaths) :
    LET p == ignorePaths[i]
    IN p # <<>> /\ (StartsWith(file, p) \/ file = p)

\* ignorePaths.some(p => p && (file.startsWith(p + '/') || file === p))
IsIgnoredPath(file, ignorePaths) ==
  \E i \in 1..Len(ignorePaths) :
    LET p == ignorePaths[i]
    IN p # <<>> /\ (StartsWith(file, p \o <<"/">>) \/ file = p)

\* ignoreExtensions.includes(path.extname(file).toLowerCase())
IsIgnoredExtension(file, ignoreExtensions) ==
  \E i \in 1..Len(ignoreExtensions) :
    ignoreExtensions[i] = ToLowerCase(ExtName(file))

\* Variant: the root index document is not given its leading slash.
UrlPathOfNoRoot(file, refreshIndexPage) ==
  IF refreshIndexPage /\ EndsWith(file, <<"/","i","n","d","e","x",".","h","t","m","l">>)
  THEN SubSeq(file, 1, Len(file) - 10)
  ELSE file

\* The root index document gets a leading slash; with refreshIndexPage a
\* trailing /index.html is replaced by /.
UrlPathOf(file, refreshIndexPage) ==
  LET f == IF file = K_index THEN <<"/">> \o file ELSE file
  IN IF refreshIndexPage /\ EndsWith(f, IndexSuffix)
     THEN SubSeq(f, 1, Len(f) - Len(IndexSuffix) + 1)
     ELSE f

\* new URL(urlPath, domain).toString() for a domain without a path and a
\* path of unreserved characters: the path is resolved against the root.
ResolveUrl(urlPath, domain) ==
  IF StartsWith(urlPath, <<"/">>) THEN domain \o urlPath
  ELSE domain \o <<"/">> \o urlPath

\* The nested forEach over domain rules and files, in order: one entry per
\* (rule, file) that is not skipped.
UrlsFor(cdnDomains, changed, refreshIndexPage) ==
  LET nf == Len(changed)
      pairs == [n \in 1..(Len(cdnDomains) * nf) |->
                  [rule |-> ((n - 1) \div nf) + 1, file |-> ((n - 1) % nf) + 1]]
      kept == SelectSeq(pairs, LAMBDA q :
                ~IsIgnoredPath(changed[q.file], cdnDomains[q.rule].ignorePaths)
                /\ ~IsIgnoredExtension(changed[q.file], cdnDomains[q.rule].ignoreExtensions))
  IN [n \in 1..Len(kept) |->
        [rule |-> kept[n].rule,
         key |-> changed[kept[n].file],
         url |-> ResolveUrl(UrlPathOf(changed[kept[n].file], refreshIndexPage),
                            cdnDomains[kept[n].rule].domain)]]

\* Variant: a key that was not uploaded is refreshed as well.
DeriveUrlsWithOrphan(cdnDomains, changed, refreshIndexPage) ==
  UrlsFor(cdnDomains, Append(changed, K_old), refreshIndexPage)

\* config.cdnDomains.forEach(... changedFiles.forEach(file => ...))
DeriveUrls(cdnDomains, changed, refreshIndexPage) ==
  UrlsFor(cdnDomains, changed, refreshIndexPage)

(***************************************************************************)
(* Cache invalidation: pure parts of purgeCdnCache and purgeEdgeOneCache.  *)
(***************************************************************************)
Min(a, b) == IF a < b THEN a ELSE b
CeilDiv(a, b) == (a + b - 1) \div b

\* urls.slice(i, i + batchSize), i counted from 0.
Slice(s, from, to) == SubSeq(s, from + 1, Min(to, Len(s)))

\* new URL(u) succeeds: an http(s) scheme followed by a host without blanks.
HostPart(u) ==
  LET rest == IF StartsWith(u, Https) THEN SubSeq(u, Len(Https) + 1, Len(u))
              ELSE SubSeq(u, Len(Http) + 1, Len(u))
      s == IndexOf(rest, "/")
  IN IF s = 0 THEN rest ELSE SubSeq(rest, 1, s - 1)

IsValidUrl(u) ==
  /\ StartsWith(u, Https) \/ StartsWith(u, Http)
  /\ LET host == HostPart(u)
     IN host # <<>> /\ \A i \in 1..Len(host) : host[i] # " "

\* new URL(u).hostname
Hostname(u) == ToLowerCase(HostPart(u))

\* hostname.split('.').slice(-2).join('.')
MainDomainOf(hostname) ==
  LET d1 == LastIndexOf(hostname, ".")
  IN IF d1 = 0 THEN hostname
     ELSE SubSeq(hostname, LastIndexOf(SubSeq(hostname, 1, d1 - 1), ".") + 1,
                 Len(hostname))

\* new Set(urls.map(...)): the main domains in order of first occurrence.
MainDomainsOf(urls) ==
  LET mains == [i \in 1..Len(urls) |-> MainDomainOf(Hostname(urls[i]))]
      first == SelectSeq([i \in 1..Len(urls) |-> i],
                         LAMBDA i : \A j \in 1..(i - 1) : mains[j] # mains[i])
  IN [k \in 1..Len(first) |-> mains[first[k]]]

\* (response?.Zones || []).find(z => z.ZoneName === mainDomain ||
\*                                   z.ZoneName.endsWith(`.${mainDomain}`))?.ZoneId
ZoneMatches(z, mainDomain) ==
  z.ZoneName = mainDomain \/ EndsWith(z.ZoneName, <<".">> \o mainDomain)

FindZoneId(zoneList, mainDomain) ==
  IF \E i \in 1..Len(zoneList) : ZoneMatches(zoneList[i], mainDomain)
  THEN zoneList[CHOOSE i \in 1..Len(zoneList) :
                  /\ ZoneMatches(zoneList[i], mainDomain)
                  /\ \A j \in 1..(i - 1) : ~ZoneMatches(zoneList[j], mainDomain)].ZoneId
  ELSE 0

\* x || dflt, for a number that may be missing (0 stands for undefined too).
OrDefault(x, dflt) == IF x = 0 THEN dflt ELSE x

\* The quota record built from the purge_url entry of DescribeContentQuota.
MakeQuota(resp) ==
  [batchLimit |-> OrDefault(resp.Batch, freeBatchLimit),
   dailyLimit |-> OrDefault(resp.Daily, defaultDailyLimit),
   dailyAvailable |-> OrDefault(resp.DailyAvailable, 0)]

IsFreePlan(quota) == quota.batchLimit = freeBatchLimit

BatchSizeOf(quota) == IF IsFreePlan(quota) THEN freeBatchLimit ELSE paidBatchSize

\* urls.filter(u => new URL(u).hostname.endsWith(mainDomain))
DomainUrlsOf(urls, mainDomain) ==
  SelectSeq(urls, LAMBDA u : EndsWith(Hostname(u), mainDomain))

UseHostPurge(domainUrls, quota) ==
  IsFreePlan(quota) /\ Len(domainUrls) > quota.dailyAvailable

\* The purge tasks of one main domain.
BuildTasks(mainDomain, domainUrls, quota) ==
  IF UseHostPurge(domainUrls, quota)
  THEN << [type |-> "purge_host", targets |-> <<mainDomain>>, method |-> "invalidate"] >>
  ELSE [i \in 1..CeilDiv(Len(domainUrls), BatchSizeOf(quota)) |->
          [type |-> "purge_url",
           targets |-> Slice(domainUrls, (i - 1) * BatchSizeOf(quota), i * BatchSizeOf(quota)),
           method |-> "delete"]]

(***************************************************************************)
(* State.                                                                  *)
(***************************************************************************)
VARIABLES
  config,        \* the validated configuration object
  localFiles,    \* getFiles(uploadDir), as keys relative to uploadDir
  zones,         \* the zones of the EdgeOne account, as DescribeZones lists them
  quotaResp,     \* the purge_url entry DescribeContentQuota answers with
  bucket,        \* the object store: key -> ETag, NoObj when absent
  failures,      \* failing answers of the collaborators so far
  raised,        \* the failure main() rejected with, <<>> while there is none
  mainPc,        \* where main() is
  contents,      \* listCosFiles: keys of the pages fetched so far
  token,         \* listCosFiles: continuationToken, 0 when undefined
  listReqs,      \* the ContinuationToken of every getBucket request
  activeCount,   \* limiter: permits held
  queue,         \* limiter: waiting operations, 0 is a listing page fetch
  pageInFlight,  \* a getBucket request holds a permit
  job,           \* per local file: the state of its limit(async () => ...) job
  changedFiles,  \* keys pushed after a successful upload
  deleteReqs,    \* the key list of every deleteMultipleObject request
  emitted,       \* the URLs derived, each with the rule and key it came from
  urls,          \* the list handed to the cache backend
  purgePc,       \* where purgeCdnCache / purgeEdgeOneCache is
  cdnIdx,        \* purgeCdnCache: loop index i
  cdnReqs,       \* the Urls of every purgeCdnCache request
  mainDomains,   \* purgeEdgeOneCache: the main domains, in order
  domIdx,        \* purgeEdgeOneCache: position in mainDomains
  zoneId,        \* purgeEdgeOneCache: ZoneId of the current main domain
  taskIdx,       \* purgeEdgeOneCache: position in tasks
  attempt,       \* failed attempts of the current task so far
  plans,         \* per main domain with a zone: its zone, quota, url count and tasks
  taskLog,       \* per settled task: its plan, position, attempts and outcome
  teoCalls       \* EdgeOne requests issued, by API

vars == <<config, localFiles, zones, quotaResp, bucket, failures, raised, mainPc, contents, token, listReqs,
          activeCount, queue, pageInFlight, job, changedFiles, deleteReqs,
          emitted, urls, purgePc, cdnIdx, cdnReqs, mainDomains, domIdx, zoneId,
          taskIdx, attempt, plans, taskLog, teoCalls>>

envVars    == <<config, localFiles, zones, quotaResp>>
listVars   == <<contents, token, listReqs>>
limitVars  == <<activeCount, queue, pageInFlight>>
uploadVars == <<job, changedFiles>>
purgeVars  == <<emitted, urls, purgePc, cdnIdx, cdnReqs, mainDomains, domIdx,
                zoneId, taskIdx, attempt, plans, taskLog, teoCalls>>
teoLoopVars == <<mainDomains, domIdx, zoneId, taskIdx, attempt, plans,
                 taskLog>>

Jobs == 1..Len(localFiles)
KeyOf(i) == localFiles[i]
localFileKeys == Range(localFiles)

\* Operations that hold a permit of the limiter.
Running(i) == job[i].pc \in {"digest", "head", "put"}
InFlight == Cardinality({i \in Jobs : Running(i)}) + (IF pageInFlight THEN 1 ELSE 0)
Settled(i) == job[i].pc \in {"skipped", "done", "failed"}

\* head: the outcome of headObject ("ok", "notfound", "error"), etag: data.ETag;
\* puts: putObject attempts so far, putOk: one of them resolved; late: the
\* limiter started the job after main() had rejected.
NewJob == [pc |-> "idle", md5 |-> <<>>, head |-> "none", etag |-> NoObj,
           puts |-> 0, putOk |-> FALSE, late |-> FALSE]

\* The keys the bucket holds, in listing order.
BucketKeys == SelectSeq(KeyOrder, LAMBDA k : bucket[k] # NoObj)

(***************************************************************************)
(* Initial states of a deploy.                                             *)
(***************************************************************************)
SeqOfSet(order, S) == SelectSeq(order, LAMBDA k : k \in S)

LocalTrees ==
  {SeqOfSet(LocalKeyOrder, S) : S \in {T \in SUBSET Range(LocalKeyOrder) : Cardinality(T) <= MaxFiles}}

\* Each local file is absent remotely, stored with the same content or
\* stored with other content; the bucket may hold an object no local file has.
Buckets(tree) ==
  {b \in [AllKeys -> {NoObj, Quote(DigestA), Quote(DigestB)}] :
     /\ \A k \in AllKeys \ (Range(tree) \cup {K_old}) : b[k] = NoObj
     /\ b[K_old] # Quote(DigestA)}

\* The zone lists an EdgeOne account may hold.
Zone(name, id) == [ZoneName |-> name, ZoneId |-> id]
ZoneListings ==
  { <<Zone(H_a, 1)>>,
    <<Zone(H_b, 3), Zone(H_xa, 2), Zone(H_a, 1)>>,
    <<Zone(<<"w","w","w",".">> \o H_a, 4)>> }

\* The purge_url entry of DescribeContentQuota's answer; all zero when the
\* answer has no such entry.
QuotaResponses ==
  { [Batch |-> 0, Daily |-> 0, DailyAvailable |-> 0],
    [Batch |-> 500, Daily |-> 1000, DailyAvailable |-> 1],
    [Batch |-> 500, Daily |-> 1000, DailyAvailable |-> 500],
    [Batch |-> 1000, Daily |-> 10000, DailyAvailable |-> 1],
    [Batch |-> 2000, Daily |-> 20000, DailyAvailable |-> 5000] }

NoQuota == [Batch |-> 0, Daily |-> 0, DailyAvailable |-> 0]

RuleA   == [domain |-> Https \o H_a, ignore_paths |-> <<P_jsSlash>>, ignore_extensions |-> <<>>]
RuleXa  == [domain |-> Http \o H_xa, ignore_paths |-> <<P_js>>, ignore_extensions |-> <<E_html>>]

DeployDomains == <<validateDomain(RuleA), validateDomain(RuleXa)>>

\* The configurations deploys are run with, each with the EdgeOne account it
\* meets: without domain rules, with the CDN backend, with the EdgeOne backend.
DeployEnvs ==
  [concurrency : 1..MaxConcurrency, removeRemoteFiles : BOOLEAN,
   refreshIndexPage : {FALSE}, cache_type : {"cdn"}, cdnDomains : {<<>>},
   zones : {<<>>}, quota : {NoQuota}]
  \cup
  [concurrency : 1..MaxConcurrency, removeRemoteFiles : BOOLEAN,
   refreshIndexPage : BOOLEAN, cache_type : {"cdn"}, cdnDomains : {DeployDomains},
   zones : {<<>>}, quota : {NoQuota}]
  \cup
  [concurrency : 1..MaxConcurrency, removeRemoteFiles : BOOLEAN,
   refreshIndexPage : {TRUE}, cache_type : {"edgeone"}, cdnDomains : {DeployDomains},
   zones : {<<Zone(H_a, 1)>>},
   quota : {[Batch |-> 500, Daily |-> 1000, DailyAvailable |-> 1]}]
  \cup
  [concurrency : 1..MaxConcurrency, removeRemoteFiles : BOOLEAN,
   refreshIndexPage : {FALSE}, cache_type : {"edgeone"}, cdnDomains : {DeployDomains},
   zones : {<<Zone(H_b, 3), Zone(H_xa, 2), Zone(H_a, 1)>>},
   quota : {[Batch |-> 1000, Daily |-> 10000, DailyAvailable |-> 1]}]

ConfigOf(e) ==
  [concurrency |-> e.concurrency, removeRemoteFiles |-> e.removeRemoteFiles,
   refreshIndexPage |-> e.refreshIndexPage, cache_type |-> e.cache_type,
   cdnDomains |-> e.cdnDomains]

IdlePurge ==
  /\ emitted = <<>> /\ urls = <<>> /\ purgePc = "idle"
  /\ cdnIdx = 0 /\ cdnReqs = <<>>
  /\ mainDomains = <<>> /\ domIdx = 0 /\ zoneId = 0
  /\ taskIdx = 0 /\ attempt = 0
  /\ plans = <<>> /\ taskLog = <<>>
  /\ teoCalls = [zones |-> 0, quota |-> 0, purge |-> 0]

IdleDeploy ==
  /\ failures = 0 /\ raised = <<>>
  /\ contents = <<>> /\ token = 0 /\ listReqs = <<>>
  /\ activeCount = 0 /\ queue = <<>> /\ pageInFlight = FALSE
  /\ changedFiles = <<>> /\ deleteReqs = <<>>

Init ==
  /\ localFiles \in LocalTrees
  /\ bucket \in Buckets(localFiles)
  /\ \E e \in DeployEnvs :
       config = ConfigOf(e) /\ zones = e.zones /\ quotaResp = e.quota
  /\ mainPc = "start"
  /\ job = [i \in Jobs |-> NewJob]
  /\ IdleDeploy
  /\ IdlePurge

(***************************************************************************)
(* The limiter (pLimit(config.concurrency)).                               *)
(***************************************************************************)
\* Variant: the capacity test admits one operation too many.
HasFreePermitOffByOne(active, concurrency) == active <= concurrency

\* A waiting operation starts only while fewer than concurrency permits are held.
HasFreePermit(active, concurrency) == active < concurrency

\* The permit count after an operation settled, by resolving or by rejecting.
Released(active) == active - 1

\* The limiter starts the operation at the head of its queue.
Dequeue ==
  /\ queue # <<>>
  /\ HasFreePermit(activeCount, config.concurrency)
  /\ activeCount' = activeCount + 1
  /\ queue' = Tail(queue)
  /\ IF Head(queue) = 0
     THEN pageInFlight' = TRUE /\ job' = job
     ELSE pageInFlight' = pageInFlight
          /\ job' = [job EXCEPT ![Head(queue)].pc = "digest",
                                 ![Head(queue)].late = (mainPc = "failed")]
  /\ UNCHANGED <<envVars, bucket, failures, raised, mainPc, listVars, changedFiles,
                 deleteReqs, purgeVars>>

(***************************************************************************)
(* main: scan, remote listing.                                             *)
(***************************************************************************)
\* getFiles resolved; the listing runs only with removeRemoteFiles.
Scan ==
  /\ mainPc = "start"
  /\ mainPc' = IF config.removeRemoteFiles THEN "list" ELSE "submit"
  /\ UNCHANGED <<envVars, bucket, failures, raised, listVars, limitVars, uploadVars,
                 deleteReqs, purgeVars>>

\* getFiles rejected (the upload directory is missing or unreadable).
ScanFail ==
  /\ mainPc = "start"
  /\ failures < MaxFailures
  /\ failures' = failures + 1
  /\ raised' = <<"getFiles", 0>>
  /\ mainPc' = "failed"
  /\ UNCHANGED <<envVars, bucket, listVars, limitVars, uploadVars, deleteReqs,
                 purgeVars>>

\* listCosFiles: one loop iteration hands a page fetch to the limiter.
ListSubmit ==
  /\ mainPc = "list"
  /\ queue' = Append(queue, 0)
  /\ mainPc' = "listWait"
  /\ UNCHANGED <<envVars, bucket, failures, raised, listVars, activeCount, pageInFlight,
                 uploadVars, deleteReqs, purgeVars>>

\* The object store's answer to getBucket: a page holds at most MaxKeys keys
\* and carries a NextContinuationToken unless it is the last.
PageOf(keys, t) == Slice(keys, t, t + MaxKeys)
NextTokenOf(keys, t) == IF t + MaxKeys < Len(keys) THEN t + MaxKeys ELSE 0

\* Variant: the loop ends after its first page.
ListContinuesNever(next) == FALSE

\* The loop's exit test: do { ... } while (continuationToken)
ListContinues(next) == next # 0

GetBucketOk ==
  /\ pageInFlight
  /\ listReqs' = Append(listReqs, token)
  /\ contents' = contents \o PageOf(BucketKeys, token)
  /\ token' = NextTokenOf(BucketKeys, token)
  /\ pageInFlight' = FALSE
  /\ activeCount' = Released(activeCount)
  /\ mainPc' = IF ListContinues(token') THEN "list" ELSE "submit"
  /\ UNCHANGED <<envVars, bucket, failures, raised, queue, uploadVars, deleteReqs, purgeVars>>

\* Variant: a rejected page fetch ends the listing with the pages it has.
GetBucketFailPartial ==
  /\ pageInFlight
  /\ failures < MaxFailures
  /\ failures' = failures + 1
  /\ raised' = <<"getBucket", 0>>
  /\ listReqs' = Append(listReqs, token)
  /\ pageInFlight' = FALSE
  /\ activeCount' = Released(activeCount)
  /\ mainPc' = "submit"
  /\ UNCHANGED <<envVars, bucket, contents, token, queue, uploadVars, deleteReqs,
                 purgeVars>>

\* getBucket rejected: listCosFiles and main reject.
GetBucketFail ==
  /\ pageInFlight
  /\ failures < MaxFailures
  /\ failures' = failures + 1
  /\ raised' = <<"getBucket", 0>>
  /\ listReqs' = Append(listReqs, token)
  /\ pageInFlight' = FALSE
  /\ activeCount' = Released(activeCount)
  /\ mainPc' = "failed"
  /\ UNCHANGED <<envVars, bucket, contents, token, queue, uploadVars, deleteReqs,
                 purgeVars>>

\* The keys listCosFiles returned.
remoteFiles == IF config.removeRemoteFiles THEN contents ELSE <<>>

(***************************************************************************)
(* main: the per-file jobs and their join.                                 *)
(***************************************************************************)
\* localFiles.map(filePath => limit(...)): every job is queued; Promise.all
\* of no job resolves at once.
Submit ==
  /\ mainPc = "submit"
  /\ queue' = queue \o [i \in Jobs |-> i]
  /\ job' = [i \in Jobs |-> [job[i] EXCEPT !.pc = "queued"]]
  /\ mainPc' = IF Jobs = {} THEN "reconcile" ELSE "join"
  /\ UNCHANGED <<envVars, bucket, failures, raised, listVars, activeCount, pageInFlight,
                 changedFiles, deleteReqs, purgeVars>>

\* Variant: the join goes on as soon as one job has resolved.
JoinAfterAny(i, pc) ==
  IF mainPc # "join" THEN mainPc
  ELSE IF pc = "failed" THEN "failed"
  ELSE "reconcile"

\* Variant: a rejected job counts as settled and the join goes on.
JoinAfterSwallowed(i, pc) ==
  IF mainPc # "join" THEN mainPc
  ELSE IF \A j \in Jobs \ {i} : job[j].pc \in {"skipped", "done", "failed"} THEN "reconcile"
  ELSE "join"

\* Promise.all after job i settled with outcome pc: the first rejection
\* rejects main, the last fulfilment lets it go on.
JoinAfter(i, pc) ==
  IF mainPc # "join" THEN mainPc
  ELSE IF pc = "failed" THEN "failed"
  ELSE IF \A j \in Jobs \ {i} : job[j].pc \in {"skipped", "done"} THEN "reconcile"
  ELSE "join"

\* What main() has rejected with after job i settled as `rec`: Promise.all
\* rejects with the first rejection and ignores the later ones.
RaisedAfter(i, rec) ==
  IF mainPc = "join" /\ rec.pc = "failed"
  THEN <<IF rec.head = "error" THEN "headObject" ELSE "putObject", i>>
  ELSE raised

\* Job i settles as `rec`: its permit goes back to the limiter.
Settle(i, rec) ==
  /\ job' = [job EXCEPT ![i] = rec]
  /\ activeCount' = Released(activeCount)
  /\ mainPc' = JoinAfter(i, rec.pc)
  /\ raised' = RaisedAfter(i, rec)

\* calculateMD5 resolved; an empty digest ends the job.
Digest(i) ==
  /\ job[i].pc = "digest"
  /\ IF calculateMD5(KeyOf(i)) = <<>>
     THEN Settle(i, [job[i] EXCEPT !.pc = "skipped"])
     ELSE /\ job' = [job EXCEPT ![i].pc = "head", ![i].md5 = calculateMD5(KeyOf(i))]
          /\ UNCHANGED <<activeCount, mainPc, raised>>
  /\ UNCHANGED <<envVars, bucket, failures, listVars, queue, pageInFlight,
                 changedFiles, deleteReqs, purgeVars>>

\* Variant: the ETag is compared with its quotes.
SameContentQuoted(etag, md5) == etag = md5

\* data.ETag?.replace(/"/g, '') === localMD5
SameContent(etag, md5) == StripQuotes(etag) = md5

\* headObject answered: with the object's ETag, or with 404.
HeadObject(i) ==
  /\ job[i].pc = "head"
  /\ IF bucket[KeyOf(i)] = NoObj
     THEN /\ job' = [job EXCEPT ![i].pc = "put", ![i].head = "notfound"]
          /\ UNCHANGED <<activeCount, mainPc, raised>>
     ELSE IF SameContent(bucket[KeyOf(i)], job[i].md5)
     THEN Settle(i, [job[i] EXCEPT !.pc = "skipped", !.head = "ok",
                                   !.etag = bucket[KeyOf(i)]])
     ELSE /\ job' = [job EXCEPT ![i].pc = "put", ![i].head = "ok",
                                ![i].etag = bucket[KeyOf(i)]]
          /\ UNCHANGED <<activeCount, mainPc, raised>>
  /\ UNCHANGED <<envVars, bucket, failures, listVars, queue, pageInFlight,
                 changedFiles, deleteReqs, purgeVars>>

\* headObject failed with a status other than 404: the job throws.
HeadFail(i) ==
  /\ job[i].pc = "head"
  /\ failures < MaxFailures
  /\ failures' = failures + 1
  /\ Settle(i, [job[i] EXCEPT !.pc = "failed", !.head = "error"])
  /\ UNCHANGED <<envVars, bucket, listVars, queue, pageInFlight, changedFiles,
                 deleteReqs, purgeVars>>

\* Variant: the last of the timeouts is never used.
CanRetryFewer(failed) == failed < Retries

\* operation.retry(error) after `failed` failed attempts: true while one of
\* the `retries` timeouts is left.
CanRetry(failed) == failed <= Retries

\* Variant: the push of a concurrent job overwrites the list read before.
PushedLost(changed, key) == IF changed = <<>> THEN <<key>> ELSE changed

\* The keys of changedFiles after the job of `key` uploaded it.
Pushed(changed, key) == Append(changed, key)

\* putObject resolved: uploadFile resolves and the key is pushed.
PutObjectOk(i) ==
  /\ job[i].pc = "put"
  /\ bucket' = [bucket EXCEPT ![KeyOf(i)] = Quote(job[i].md5)]
  /\ changedFiles' = Pushed(changedFiles, KeyOf(i))
  /\ Settle(i, [job[i] EXCEPT !.pc = "done", !.puts = @ + 1, !.putOk = TRUE])
  /\ UNCHANGED <<envVars, failures, listVars, queue, pageInFlight, deleteReqs,
                 purgeVars>>

\* putObject rejected: another attempt after the backoff, or uploadFile rejects.
PutObjectFail(i) ==
  /\ job[i].pc = "put"
  /\ failures < MaxFailures
  /\ failures' = failures + 1
  /\ IF CanRetry(job[i].puts + 1)
     THEN /\ job' = [job EXCEPT ![i].puts = @ + 1]
          /\ UNCHANGED <<activeCount, mainPc, raised>>
     ELSE Settle(i, [job[i] EXCEPT !.pc = "failed", !.puts = @ + 1])
  /\ UNCHANGED <<envVars, bucket, listVars, queue, pageInFlight, changedFiles,
                 deleteReqs, purgeVars>>

(***************************************************************************)
(* main: reconciliation (deleteCosFiles).                                  *)
(***************************************************************************)
\* Variant: only the files uploaded in this deploy count as local.
filesToDeleteChanged == SelectSeq(remoteFiles, LAMBDA k : k \notin Range(changedFiles))

\* remoteFiles.filter(key => !localFileKeys.has(key))
filesToDelete == SelectSeq(remoteFiles, LAMBDA k : k \notin localFileKeys)

\* Whether deleteCosFiles sends a request for `keys`.
SendsDelete(enabled, keys) == enabled /\ Len(keys) # 0

\* Nothing to delete, or deletion is off: no request.
ReconcileSkip ==
  /\ mainPc = "reconcile"
  /\ ~SendsDelete(config.removeRemoteFiles, filesToDelete)
  /\ mainPc' = "derive"
  /\ UNCHANGED <<envVars, bucket, failures, raised, listVars, limitVars, uploadVars,
                 deleteReqs, purgeVars>>

DeleteOk ==
  /\ mainPc = "reconcile"
  /\ SendsDelete(config.removeRemoteFiles, filesToDelete)
  /\ deleteReqs' = Append(deleteReqs, filesToDelete)
  /\ bucket' = [k \in AllKeys |-> IF k \in Range(filesToDelete) THEN NoObj ELSE bucket[k]]
  /\ mainPc' = "derive"
  /\ UNCHANGED <<envVars, failures, raised, listVars, limitVars, uploadVars, purgeVars>>

DeleteFail ==
  /\ mainPc = "reconcile"
  /\ SendsDelete(config.removeRemoteFiles, filesToDelete)
  /\ failures < MaxFailures
  /\ failures' = failures + 1
  /\ raised' = <<"deleteMultipleObject", 0>>
  /\ deleteReqs' = Append(deleteReqs, filesToDelete)
  /\ mainPc' = "failed"
  /\ UNCHANGED <<envVars, bucket, listVars, limitVars, uploadVars, purgeVars>>

(***************************************************************************)
(* main: URL derivation and the call of the cache backend.                 *)
(***************************************************************************)
\* config.cdnDomains.length && changedFiles.length
RefreshNeeded == Len(config.cdnDomains) # 0 /\ Len(changedFiles) # 0

Derive ==
  /\ mainPc = "derive"
  /\ IF RefreshNeeded
     THEN /\ emitted' = DeriveUrls(config.cdnDomains, changedFiles, config.refreshIndexPage)
          /\ urls' = [n \in 1..Len(emitted') |-> emitted'[n].url]
          /\ purgePc' = IF config.cache_type = "cdn" THEN "cdn" ELSE "validate"
          /\ mainPc' = "purge"
     ELSE /\ mainPc' = "done"
          /\ UNCHANGED <<emitted, urls, purgePc>>
  /\ UNCHANGED <<envVars, bucket, failures, raised, listVars, limitVars, uploadVars,
                 deleteReqs, cdnIdx, cdnReqs, teoLoopVars, teoCalls>>

(***************************************************************************)
(* purgeCdnCache.                                                          *)
(***************************************************************************)
\* Variant: the batch ends one URL early.
CdnBatchShort(list, i) == Slice(list, i, i + cdnBatchSize - 1)

\* urls.slice(i, i + batchSize)
CdnBatch(list, i) == Slice(list, i, i + cdnBatchSize)

CdnRequestOk ==
  /\ mainPc = "purge" /\ purgePc = "cdn"
  /\ cdnIdx < Len(urls)
  /\ cdnReqs' = Append(cdnReqs, CdnBatch(urls, cdnIdx))
  /\ cdnIdx' = cdnIdx + cdnBatchSize
  /\ UNCHANGED <<envVars, bucket, failures, raised, mainPc, listVars, limitVars, uploadVars,
                 deleteReqs, emitted, urls, purgePc, teoLoopVars, teoCalls>>

\* cdn.request rejected: purgeCdnCache and main reject.
CdnRequestFail ==
  /\ mainPc = "purge" /\ purgePc = "cdn"
  /\ cdnIdx < Len(urls)
  /\ failures < MaxFailures
  /\ failures' = failures + 1
  /\ raised' = <<"purgeCdnCache", 0>>
  /\ cdnReqs' = Append(cdnReqs, CdnBatch(urls, cdnIdx))
  /\ purgePc' = "threw"
  /\ mainPc' = "failed"
  /\ UNCHANGED <<envVars, bucket, listVars, limitVars, uploadVars, deleteReqs,
                 emitted, urls, cdnIdx, teoLoopVars, teoCalls>>

CdnReturn ==
  /\ mainPc = "purge" /\ purgePc = "cdn"
  /\ cdnIdx >= Len(urls)
  /\ purgePc' = "returned"
  /\ mainPc' = "done"
  /\ UNCHANGED <<envVars, bucket, failures, raised, listVars, limitVars, uploadVars,
                 deleteReqs, emitted, urls, cdnIdx, cdnReqs, teoLoopVars, teoCalls>>

(***************************************************************************)
(* purgeEdgeOneCache.                                                      *)
(***************************************************************************)
\* urls.filter(u => { try { new URL(u); return false; } catch { return true; } })
invalidUrls(list) == SelectSeq(list, LAMBDA u : ~IsValidUrl(u))

\* Variant: only the first URL is checked.
HasInvalidFirst(list) == Len(list) # 0 /\ ~IsValidUrl(list[1])

\* The guard of the early return.
HasInvalid(list) == Len(invalidUrls(list)) # 0

\* The URL check: with a malformed URL the pass returns, else the main
\* domains are collected.
Validate ==
  /\ mainPc = "purge" /\ purgePc = "validate"
  /\ IF HasInvalid(urls)
     THEN /\ purgePc' = "skipped"
          /\ mainPc' = "done"
          /\ UNCHANGED <<mainDomains, domIdx>>
     ELSE /\ mainDomains' = MainDomainsOf(urls)
          /\ domIdx' = 1
          /\ purgePc' = "zone"
          /\ mainPc' = mainPc
  /\ UNCHANGED <<envVars, bucket, failures, raised, listVars, limitVars, uploadVars,
                 deleteReqs, emitted, urls, cdnIdx, cdnReqs, zoneId, taskIdx,
                 attempt, plans, taskLog, teoCalls>>

\* Variant: a main domain without a zone makes the pass throw.
DescribeZonesThrows ==
  /\ mainPc = "purge" /\ purgePc = "zone"
  /\ domIdx <= Len(mainDomains)
  /\ zoneId' = FindZoneId(zones, mainDomains[domIdx])
  /\ IF zoneId' = 0
     THEN /\ purgePc' = "threw" /\ mainPc' = "failed"
          /\ raised' = <<"zone not found", 0>>
     ELSE /\ purgePc' = "quota"
          /\ UNCHANGED <<mainPc, raised>>
  /\ teoCalls' = [teoCalls EXCEPT !.zones = @ + 1]
  /\ UNCHANGED <<envVars, bucket, failures, listVars, limitVars, uploadVars,
                 deleteReqs, emitted, urls, cdnIdx, cdnReqs, mainDomains, domIdx,
                 taskIdx, attempt, plans, taskLog>>

\* DescribeZones answered: without a matching zone the loop continues with
\* the next main domain.
DescribeZones ==
  /\ mainPc = "purge" /\ purgePc = "zone"
  /\ domIdx <= Len(mainDomains)
  /\ zoneId' = FindZoneId(zones, mainDomains[domIdx])
  /\ IF zoneId' = 0
     THEN domIdx' = domIdx + 1 /\ purgePc' = "zone"
     ELSE domIdx' = domIdx /\ purgePc' = "quota"
  /\ teoCalls' = [teoCalls EXCEPT !.zones = @ + 1]
  /\ UNCHANGED <<envVars, bucket, failures, raised, mainPc, listVars, limitVars, uploadVars,
                 deleteReqs, emitted, urls, cdnIdx, cdnReqs, mainDomains,
                 taskIdx, attempt, plans, taskLog>>

\* DescribeZones rejected: purgeEdgeOneCache throws.
DescribeZonesFail ==
  /\ mainPc = "purge" /\ purgePc = "zone"
  /\ domIdx <= Len(mainDomains)
  /\ failures < MaxFailures
  /\ failures' = failures + 1
  /\ raised' = <<"DescribeZones", 0>>
  /\ teoCalls' = [teoCalls EXCEPT !.zones = @ + 1]
  /\ purgePc' = "threw"
  /\ mainPc' = "failed"
  /\ UNCHANGED <<envVars, bucket, listVars, limitVars, uploadVars, deleteReqs,
                 emitted, urls, cdnIdx, cdnReqs, teoLoopVars>>

\* DescribeContentQuota answered: the quota is read and the tasks are built.
DescribeContentQuota ==
  /\ mainPc = "purge" /\ purgePc = "quota"
  /\ LET quota == MakeQuota(quotaResp)
         domainUrls == DomainUrlsOf(urls, mainDomains[domIdx])
     IN plans' = Append(plans, [mainDomain |-> mainDomains[domIdx],
                                zoneId |-> zoneId,
                                quota |-> quota,
                                count |-> Len(domainUrls),
                                tasks |-> BuildTasks(mainDomains[domIdx], domainUrls, quota)])
  /\ taskIdx' = 1
  /\ attempt' = 0
  /\ purgePc' = "task"
  /\ teoCalls' = [teoCalls EXCEPT !.quota = @ + 1]
  /\ UNCHANGED <<envVars, bucket, failures, raised, mainPc, listVars, limitVars, uploadVars,
                 deleteReqs, emitted, urls, cdnIdx, cdnReqs, mainDomains, domIdx,
                 zoneId, taskLog>>

\* DescribeContentQuota rejected: purgeEdgeOneCache throws.
DescribeContentQuotaFail ==
  /\ mainPc = "purge" /\ purgePc = "quota"
  /\ failures < MaxFailures
  /\ failures' = failures + 1
  /\ raised' = <<"DescribeContentQuota", 0>>
  /\ teoCalls' = [teoCalls EXCEPT !.quota = @ + 1]
  /\ purgePc' = "threw"
  /\ mainPc' = "failed"
  /\ UNCHANGED <<envVars, bucket, listVars, limitVars, uploadVars, deleteReqs,
                 emitted, urls, cdnIdx, cdnReqs, teoLoopVars>>

\* The tasks of the main domain at hand.
tasks == IF plans = <<>> THEN <<>> ELSE plans[Len(plans)].tasks

TaskRecord(ok) ==
  [plan |-> Len(plans), task |-> taskIdx, attempts |-> attempt + 1, ok |-> ok]

\* CreatePurgeTask resolved for the current task.
CreatePurgeTaskOk ==
  /\ mainPc = "purge" /\ purgePc = "task"
  /\ taskIdx <= Len(tasks)
  /\ taskLog' = Append(taskLog, TaskRecord(TRUE))
  /\ taskIdx' = taskIdx + 1
  /\ attempt' = 0
  /\ teoCalls' = [teoCalls EXCEPT !.purge = @ + 1]
  /\ UNCHANGED <<envVars, bucket, failures, raised, mainPc, listVars, limitVars, uploadVars,
                 deleteReqs, emitted, urls, purgePc, cdnIdx, cdnReqs, mainDomains,
                 domIdx, zoneId, plans>>

\* Variant: a task that is given up rejects the pass, as an upload does.
CreatePurgeTaskFailThrows ==
  /\ mainPc = "purge" /\ purgePc = "task"
  /\ taskIdx <= Len(tasks)
  /\ failures < MaxFailures
  /\ failures' = failures + 1
  /\ teoCalls' = [teoCalls EXCEPT !.purge = @ + 1]
  /\ IF CanRetry(attempt + 1)
     THEN /\ attempt' = attempt + 1
          /\ UNCHANGED <<taskIdx, taskLog, purgePc, mainPc, raised>>
     ELSE /\ taskLog' = Append(taskLog, TaskRecord(FALSE))
          /\ purgePc' = "threw" /\ mainPc' = "failed"
          /\ raised' = <<"CreatePurgeTask", 0>>
          /\ UNCHANGED <<taskIdx, attempt>>
  /\ UNCHANGED <<envVars, bucket, listVars, limitVars, uploadVars,
                 deleteReqs, emitted, urls, cdnIdx, cdnReqs, mainDomains,
                 domIdx, zoneId, plans>>

\* CreatePurgeTask rejected: another attempt, or the task is logged and the
\* loop goes on with the next one.
CreatePurgeTaskFail ==
  /\ mainPc = "purge" /\ purgePc = "task"
  /\ taskIdx <= Len(tasks)
  /\ failures < MaxFailures
  /\ failures' = failures + 1
  /\ teoCalls' = [teoCalls EXCEPT !.purge = @ + 1]
  /\ IF CanRetry(attempt + 1)
     THEN /\ attempt' = attempt + 1
          /\ UNCHANGED <<taskIdx, taskLog>>
     ELSE /\ taskLog' = Append(taskLog, TaskRecord(FALSE))
          /\ taskIdx' = taskIdx + 1
          /\ attempt' = 0
  /\ UNCHANGED <<envVars, bucket, raised, mainPc, listVars, limitVars, uploadVars,
                 deleteReqs, emitted, urls, purgePc, cdnIdx, cdnReqs, mainDomains,
                 domIdx, zoneId, plans>>

\* The tasks of a main domain are through: on to the next main domain.
NextDomain ==
  /\ mainPc = "purge" /\ purgePc = "task"
  /\ taskIdx > Len(tasks)
  /\ domIdx' = domIdx + 1
  /\ purgePc' = "zone"
  /\ UNCHANGED <<envVars, bucket, failures, raised, mainPc, listVars, limitVars, uploadVars,
                 deleteReqs, emitted, urls, cdnIdx, cdnReqs, mainDomains, zoneId,
                 taskIdx, attempt, plans, taskLog, teoCalls>>

\* Every main domain is through: purgeEdgeOneCache returns.
EdgeOneReturn ==
  /\ mainPc = "purge" /\ purgePc = "zone"
  /\ domIdx > Len(mainDomains)
  /\ purgePc' = "returned"
  /\ mainPc' = "done"
  /\ UNCHANGED <<envVars, bucket, failures, raised, listVars, limitVars, uploadVars,
                 deleteReqs, emitted, urls, cdnIdx, cdnReqs, teoLoopVars, teoCalls>>

(***************************************************************************)
(* The deploy.                                                             *)
(***************************************************************************)
NextEdgeOne ==
  \/ Validate
  \/ DescribeZones \/ DescribeZonesFail
  \/ DescribeContentQuota \/ DescribeContentQuotaFail
  \/ CreatePurgeTaskOk \/ CreatePurgeTaskFail
  \/ NextDomain \/ EdgeOneReturn

NextPurge ==
  \/ CdnRequestOk \/ CdnRequestFail \/ CdnReturn
  \/ NextEdgeOne

\* main up to the cache invalidation.
NextUpload ==
  \/ Scan \/ ScanFail
  \/ ListSubmit \/ Dequeue \/ GetBucketOk \/ GetBucketFail
  \/ Submit
  \/ \E i \in Jobs : Digest(i)
  \/ \E i \in Jobs : HeadObject(i)
  \/ \E i \in Jobs : HeadFail(i)
  \/ \E i \in Jobs : PutObjectOk(i)
  \/ \E i \in Jobs : PutObjectFail(i)
  \/ ReconcileSkip \/ DeleteOk \/ DeleteFail
  \/ Derive

Next == NextUpload \/ NextPurge

Spec == Init /\ [][Next]_vars

\* A deploy without cache domains, which ends after the reconcile.  Every
\* pending callback of the event loop runs and every request is answered, so
\* a step that stays possible is taken.
InitUpload == Init /\ config.cdnDomains = <<>>
SpecUpload == InitUpload /\ [][NextUpload]_vars /\ WF_vars(NextUpload)

(***************************************************************************)
(* URL derivation on its own: main at the cache-refresh block, after any   *)
(* set of files was uploaded in any order, under any list of domain rules. *)
(***************************************************************************)
ChangedLists ==
  {c \in UNION {[1..n -> AllKeys \ {K_old}] : n \in 0..MaxChanged} :
     \A i, j \in 1..Len(c) : i # j => c[i] # c[j]}

RuleLists ==
  UNION {[1..n -> {validateDomain(r) : r \in RawRules}] : n \in 0..MaxRules}

InitDerive ==
  /\ changedFiles \in ChangedLists
  /\ localFiles = SeqOfSet(KeyOrder, Range(changedFiles))
  /\ bucket = [k \in AllKeys |-> IF k \in Range(changedFiles)
                                 THEN Quote(calculateMD5(k)) ELSE NoObj]
  /\ job = [i \in Jobs |-> [pc |-> "done", md5 |-> calculateMD5(KeyOf(i)),
                            head |-> "notfound", etag |-> NoObj, puts |-> 1,
                            putOk |-> TRUE, late |-> FALSE]]
  /\ config \in [concurrency : {1}, removeRemoteFiles : {FALSE},
                 refreshIndexPage : BOOLEAN, cache_type : {"cdn"},
                 cdnDomains : RuleLists]
  /\ zones = <<>> /\ quotaResp = NoQuota
  /\ mainPc = "derive"
  /\ failures = 0 /\ raised = <<>>
  /\ contents = <<>> /\ token = 0 /\ listReqs = <<>>
  /\ activeCount = 0 /\ queue = <<>> /\ pageInFlight = FALSE
  /\ deleteReqs = <<>>
  /\ IdlePurge

SpecDerive == InitDerive /\ [][Derive]_vars

(***************************************************************************)
(* The cache backends on their own: purgeCdnCache and purgeEdgeOneCache    *)
(* called with URL lists of any size around the batch sizes.               *)
(***************************************************************************)
BadUrl == <<"n","o","t"," ","a"," ","u","r","l">>

\* The n-th URL of a list whose hosts follow `pattern` cyclically; a pattern
\* entry without a host gives a malformed URL.
UrlOf(pattern, n) ==
  LET h == pattern[((n - 1) % Len(pattern)) + 1]
  IN IF h = <<>> THEN BadUrl ELSE Https \o h \o <<"/", ToString(n)>>

HostPatterns ==
  { <<H_a>>, <<H_xa, H_a>>, <<H_sub, H_b, H_a>>, <<H_a, <<>>>> }

PurgeSizes ==
  (0..MaxSmallUrls) \cup
  {k * freeBatchLimit + d : k \in 1..MaxBatches, d \in {0, 1}}

PurgeInputs ==
  {[n \in 1..size |-> UrlOf(pattern, n)] : size \in PurgeSizes, pattern \in HostPatterns}

PurgeEnvs ==
  [cache_type : {"cdn"}, zones : {<<>>}, quota : {NoQuota}]
  \cup
  [cache_type : {"edgeone"}, zones : ZoneListings, quota : QuotaResponses]

InitPurge ==
  /\ urls \in PurgeInputs
  /\ \E e \in PurgeEnvs :
       /\ config = [concurrency |-> 1, removeRemoteFiles |-> FALSE,
                    refreshIndexPage |-> FALSE, cache_type |-> e.cache_type,
                    cdnDomains |-> <<>>]
       /\ zones = e.zones
       /\ quotaResp = e.quota
       /\ purgePc = IF e.cache_type = "cdn" THEN "cdn" ELSE "validate"
  /\ localFiles = <<>>
  /\ bucket = [k \in AllKeys |-> NoObj]
  /\ job = [i \in Jobs |-> NewJob]
  /\ mainPc = "purge"
  /\ failures = MaxFailures - 1 /\ raised = <<>>
  /\ contents = <<>> /\ token = 0 /\ listReqs = <<>>
  /\ activeCount = 0 /\ queue = <<>> /\ pageInFlight = FALSE
  /\ changedFiles = <<>> /\ deleteReqs = <<>>
  /\ emitted = <<>>
  /\ cdnIdx = 0 /\ cdnReqs = <<>>
  /\ mainDomains = <<>> /\ domIdx = 0 /\ zoneId = 0
  /\ taskIdx = 0 /\ attempt = 0
  /\ plans = <<>> /\ taskLog = <<>>
  /\ teoCalls = [zones |-> 0, quota |-> 0, purge |-> 0]

SpecPurge == InitPurge /\ [][NextPurge]_vars

(***************************************************************************)
(* purgeEdgeOneCache on its own with collaborators that may fail often:    *)
(* URLs of a.co, a few or one more than a batch, then URLs of b.io.        *)
(***************************************************************************)
TaskInputs ==
  {[n \in 1..size |-> UrlOf(<<H_a>>, n)] \o [n \in 1..k |-> UrlOf(<<H_b>>, size + n)] :
     size \in {MaxSmallUrls, paidBatchSize + 1}, k \in {0, 1}}

InitTasks ==
  /\ urls \in TaskInputs
  /\ config = [concurrency |-> 1, removeRemoteFiles |-> FALSE,
               refreshIndexPage |-> FALSE, cache_type |-> "edgeone",
               cdnDomains |-> <<>>]
  /\ zones \in ZoneListings
  /\ quotaResp \in QuotaResponses
  /\ purgePc = "validate"
  /\ localFiles = <<>>
  /\ bucket = [k \in AllKeys |-> NoObj]
  /\ job = [i \in Jobs |-> NewJob]
  /\ mainPc = "purge"
  /\ IdleDeploy
  /\ emitted = <<>>
  /\ cdnIdx = 0 /\ cdnReqs = <<>>
  /\ mainDomains = <<>> /\ domIdx = 0 /\ zoneId = 0
  /\ taskIdx = 0 /\ attempt = 0
  /\ plans = <<>> /\ taskLog = <<>>
  /\ teoCalls = [zones |-> 0, quota |-> 0, purge |-> 0]

SpecTasks == InitTasks /\ [][NextEdgeOne]_vars

(***************************************************************************)
(* Properties of the deploy.                                               *)
(***************************************************************************)
JobOf(k) == CHOOSE i \in Jobs : KeyOf(i) = k

\* Permits held against operations in flight: at most `concurrency`
\* operations are in flight, the permits held are exactly theirs (a settled
\* operation, resolved or rejected, has given its permit back), and the
\* queue holds exactly the jobs that wait.
LimiterBound ==
  /\ InFlight <= config.concurrency
  /\ activeCount = InFlight
  /\ \A i \in Jobs : job[i].pc = "queued" <=> \E n \in 1..Len(queue) : queue[n] = i

\* Operation o (0: a listing page fetch, i: the job of file i) waits in the
\* limiter's queue.
Waiting(o) == \E n \in 1..Len(queue) : queue[n] = o

\* C1: at most `concurrency` limiter-gated operations (per-file jobs with all
\* their retry attempts, listing page fetches) are ever in flight, a permit
\* is given back when its operation resolves or rejects, and every operation
\* that waits in the queue is eventually started.
C1_LimiterBound ==
  /\ []LimiterBound
  /\ \A o \in 0..MaxFiles : Waiting(o) ~> ~Waiting(o)

\* A job was rejected while the limit of one was reached, and the job queued
\* behind it runs on the permit it gave back, in a retry of its upload.
C1_Witness ==
  /\ config.concurrency = 1
  /\ \E i, j \in Jobs : /\ job[i].pc = "failed"
                        /\ job[j].pc = "put" /\ job[j].puts > 0
  /\ InFlight = config.concurrency

\* C2: every key of changedFiles is the key of a job whose putObject was
\* confirmed (the bucket holds the local content under it); the key of a job
\* that failed, was skipped or has not uploaded yet is not in changedFiles;
\* no push is lost and none is doubled.
C2_ChangedKeysUploaded ==
  /\ \A n \in 1..Len(changedFiles) :
       /\ changedFiles[n] \in localFileKeys
       /\ job[JobOf(changedFiles[n])].putOk
       /\ job[JobOf(changedFiles[n])].puts \in 1..(Retries + 1)
       /\ bucket[changedFiles[n]] = Quote(calculateMD5(changedFiles[n]))
  /\ \A i \in Jobs : job[i].pc # "done" => KeyOf(i) \notin Range(changedFiles)
  /\ \A i \in Jobs : job[i].pc = "done" => KeyOf(i) \in Range(changedFiles)
  /\ Cardinality(Range(changedFiles)) = Len(changedFiles)

\* Two jobs ran concurrently: one uploaded its file, the other failed on
\* every attempt.
C2_Witness ==
  \E i, j \in Jobs :
    /\ job[i].pc = "done" /\ KeyOf(i) \in Range(changedFiles)
    /\ job[j].pc = "failed" /\ job[j].puts = Retries + 1
    /\ config.concurrency > 1

\* C3: a file whose digest equals the ETag headObject returned, quotes
\* stripped, gets no putObject and is never in changedFiles; a file whose
\* headObject returned 404 or another ETag goes on to upload, and once its
\* job has resolved it was put and is in changedFiles.
C3_SkipUnchanged ==
  \A i \in Jobs :
    /\ (job[i].head = "ok" /\ StripQuotes(job[i].etag) = calculateMD5(KeyOf(i)))
         => /\ job[i].puts = 0
            /\ job[i].pc = "skipped"
            /\ KeyOf(i) \notin Range(changedFiles)
    /\ (\/ job[i].head = "notfound"
        \/ job[i].head = "ok" /\ StripQuotes(job[i].etag) # calculateMD5(KeyOf(i)))
         => /\ job[i].pc \in {"put", "done", "failed"}
            /\ job[i].pc \in {"done", "failed"} => job[i].puts >= 1
            /\ job[i].pc = "done" => KeyOf(i) \in Range(changedFiles)

\* One file was skipped as unchanged, one uploaded after a 404.
C3_Witness ==
  \E i, j \in Jobs :
    /\ job[i].pc = "skipped" /\ job[i].head = "ok"
    /\ job[j].pc = "done" /\ job[j].head = "notfound"
    /\ changedFiles = <<KeyOf(j)>>

\* C4: a delete request carries exactly the listed remote keys that no local
\* file has (changed or not), each once; without removeRemoteFiles there is
\* none; there is at most one per deploy, none for an empty difference, and
\* one once the deploy is past reconciliation with a non-empty difference.
C4_DeleteOrphans ==
  LET orphans == Range(contents) \ localFileKeys
  IN /\ Len(deleteReqs) <= 1
     /\ ~config.removeRemoteFiles => deleteReqs = <<>>
     /\ \A n \in 1..Len(deleteReqs) :
          /\ Range(deleteReqs[n]) = orphans
          /\ Len(deleteReqs[n]) = Cardinality(orphans)
          /\ deleteReqs[n] # <<>>
     /\ (mainPc \in {"derive", "purge", "done"} /\ config.removeRemoteFiles
         /\ orphans # {}) => Len(deleteReqs) = 1

\* An orphan was deleted in a deploy that left an unchanged file alone.
C4_Witness ==
  /\ Len(deleteReqs) = 1
  /\ mainPc = "derive"
  /\ \E i \in Jobs : job[i].pc = "skipped" /\ bucket[KeyOf(i)] # NoObj
  /\ bucket[K_old] = NoObj

(***************************************************************************)
(* Properties of the URL derivation.                                       *)
(***************************************************************************)
\* The key equals an ignored prefix of the rule or starts with it and '/'.
C5_OnIgnoredPath(k, rule) ==
  \E n \in 1..Len(rule.ignorePaths) :
    k = rule.ignorePaths[n] \/ StartsWith(k, rule.ignorePaths[n] \o <<"/">>)

\* The lowercased extension of the key is one of the rule's.
C5_HasIgnoredExtension(k, rule) ==
  ToLowerCase(ExtName(k)) \in Range(rule.ignoreExtensions)

EmittedFor(r, k) == {n \in 1..Len(emitted) : emitted[n].rule = r /\ emitted[n].key = k}

\* C5: once the URLs are derived, a URL is emitted for a changed key under a
\* domain rule if and only if the key is on none of the rule's ignored paths
\* and its lowercased extension is none of the rule's ignored extensions;
\* never more than one, and the list handed on is the URLs emitted.
C5_EmittedIffNotIgnored ==
  mainPc # "derive" =>
    /\ \A r \in 1..Len(config.cdnDomains) : \A k \in Range(changedFiles) :
         /\ EmittedFor(r, k) # {}
              <=> /\ ~C5_OnIgnoredPath(k, config.cdnDomains[r])
                  /\ ~C5_HasIgnoredExtension(k, config.cdnDomains[r])
         /\ Cardinality(EmittedFor(r, k)) <= 1
    /\ \A n \in 1..Len(emitted) :
         /\ emitted[n].rule \in 1..Len(config.cdnDomains)
         /\ emitted[n].key \in Range(changedFiles)
    /\ urls = [n \in 1..Len(emitted) |-> emitted[n].url]

\* Under one rule list a key is emitted for one rule, skipped for its path by
\* another (a prefix that only lacks the separator does not skip it) and
\* skipped for its extension by a third.
C5_Witness ==
  /\ mainPc = "purge"
  /\ \E k \in Range(changedFiles) : \E r1, r2 \in 1..Len(config.cdnDomains) :
       /\ EmittedFor(r1, k) # {}
       /\ EmittedFor(r2, k) = {}
       /\ k = K_jsx
       /\ <<"j","s">> \in Range(config.cdnDomains[r1].ignorePaths)
       /\ C5_OnIgnoredPath(k, config.cdnDomains[r2])
  /\ \E k \in Range(changedFiles) : \E r \in 1..Len(config.cdnDomains) :
       /\ EmittedFor(r, k) = {}
       /\ ~C5_OnIgnoredPath(k, config.cdnDomains[r])
       /\ C5_HasIgnoredExtension(k, config.cdnDomains[r])

C6_IndexName == <<"i","n","d","e","x",".","h","t","m","l">>
C6_LastSegment(k) == SubSeq(k, LastIndexOf(k, "/") + 1, Len(k))
\* The directory of the key, with its trailing slash; empty at the root.
C6_ParentDir(k) == SubSeq(k, 1, LastIndexOf(k, "/"))

\* C6: with refreshIndexPage the URL of a key whose last segment is
\* index.html, at the root or in a sub-directory, is the domain followed by
\* the parent directory ending in '/'; without refreshIndexPage every URL is
\* the domain followed by '/' and the key, index.html included.
C6_IndexRewrite ==
  \A n \in 1..Len(emitted) :
    LET k == emitted[n].key
        domain == config.cdnDomains[emitted[n].rule].domain
    IN IF config.refreshIndexPage
       THEN C6_LastSegment(k) = C6_IndexName
              => emitted[n].url = domain \o <<"/">> \o C6_ParentDir(k)
       ELSE emitted[n].url = domain \o <<"/">> \o k

\* With refreshIndexPage the root index and a sub-directory index were
\* rewritten, in one derivation.
C6_Witness ==
  /\ config.refreshIndexPage
  /\ \E n, m \in 1..Len(emitted) :
       /\ emitted[n].key = K_index
       /\ emitted[n].url = config.cdnDomains[emitted[n].rule].domain \o <<"/">>
       /\ emitted[m].key = K_subindex
       /\ emitted[m].url = config.cdnDomains[emitted[m].rule].domain \o <<"/", "b", "/">>

(***************************************************************************)
(* Properties of the cache invalidation.                                   *)
(***************************************************************************)
RECURSIVE Flatten(_)
Flatten(ss) == IF ss = <<>> THEN <<>> ELSE Head(ss) \o Flatten(Tail(ss))

\* C7: when purgeCdnCache has returned, every request having succeeded, it
\* issued ceil(n/1000) requests for its n URLs, each with 1 to 1000 URLs, and
\* the requests in the order issued concatenate to the URL list.
C7_FlatBatches ==
  (config.cache_type = "cdn" /\ purgePc = "returned") =>
    /\ Len(cdnReqs) * 1000 >= Len(urls)
    /\ (Len(cdnReqs) - 1) * 1000 < Len(urls) \/ (cdnReqs = <<>> /\ urls = <<>>)
    /\ \A n \in 1..Len(cdnReqs) : Len(cdnReqs[n]) \in 1..1000
    /\ Flatten(cdnReqs) = urls

\* 2500 URLs went out as three requests of 1000, 1000 and 500.
C7_Witness ==
  /\ config.cache_type = "cdn" /\ purgePc = "returned"
  /\ Len(urls) = 2500
  /\ Len(cdnReqs) = 3
  /\ Len(cdnReqs[1]) = 1000 /\ Len(cdnReqs[2]) = 1000 /\ Len(cdnReqs[3]) = 500

\* The plan of the main domain whose quota was just fetched.
PlanJustBuilt == purgePc = "task" /\ taskIdx = 1 /\ attempt = 0
LastPlan == plans[Len(plans)]

\* The URLs of the input whose hostname has `mainDomain` as its last two labels.
PendingOf(mainDomain) ==
  {n \in 1..Len(urls) : MainDomainOf(Hostname(urls[n])) = mainDomain}

\* C8: for a main domain on the constrained plan (batchLimit 500) with more
\* pending URLs than dailyAvailable, the tasks are exactly one purge_host task
\* targeting the main domain; otherwise no task is a purge_host task.
C8_HostFallback ==
  PlanJustBuilt =>
    IF /\ LastPlan.quota.batchLimit = 500
       /\ Cardinality(PendingOf(LastPlan.mainDomain)) > LastPlan.quota.dailyAvailable
    THEN /\ Len(LastPlan.tasks) = 1
         /\ LastPlan.tasks[1].type = "purge_host"
         /\ LastPlan.tasks[1].targets = <<LastPlan.mainDomain>>
    ELSE \A n \in 1..Len(LastPlan.tasks) : LastPlan.tasks[n].type # "purge_host"

\* C9: without the host fallback the n URLs of the main domain become
\* ceil(n/batchLimit) purge_url tasks of at most batchLimit targets each,
\* which concatenate to those URLs.
C9_ChunkByBatchLimit ==
  (PlanJustBuilt /\ ~(/\ LastPlan.quota.batchLimit = 500
                      /\ LastPlan.count > LastPlan.quota.dailyAvailable)) =>
    /\ Len(LastPlan.tasks) * LastPlan.quota.batchLimit >= LastPlan.count
    /\ (Len(LastPlan.tasks) - 1) * LastPlan.quota.batchLimit < LastPlan.count
    /\ \A n \in 1..Len(LastPlan.tasks) :
         /\ LastPlan.tasks[n].type = "purge_url"
         /\ Len(LastPlan.tasks[n].targets) \in 1..LastPlan.quota.batchLimit
    /\ Flatten([n \in 1..Len(LastPlan.tasks) |-> LastPlan.tasks[n].targets])
         = DomainUrlsOf(urls, LastPlan.mainDomain)

\* C10: with a malformed URL in its input purgeEdgeOneCache issues no request
\* (no DescribeZones, no DescribeContentQuota, no CreatePurgeTask), does not
\* throw and, once its URLs are validated, has returned.
C10_MalformedSkips ==
  (config.cache_type = "edgeone" /\ \E n \in 1..Len(urls) : urls[n] = BadUrl) =>
    /\ teoCalls = [zones |-> 0, quota |-> 0, purge |-> 0]
    /\ plans = <<>> /\ taskLog = <<>>
    /\ purgePc \in {"validate", "skipped"}
    /\ mainPc = IF purgePc = "validate" THEN "purge" ELSE "done"

\* The pass was skipped for an input whose first URL is well-formed.
C10_Witness ==
  /\ config.cache_type = "edgeone"
  /\ purgePc = "skipped"
  /\ Len(urls) >= 2
  /\ urls[1] = Https \o H_a \o <<"/", "1">>
  /\ urls[2] = BadUrl

(***************************************************************************)
(* Properties of the retried operations.                                   *)
(***************************************************************************)
\* The CreatePurgeTask requests the settled tasks took.
RECURSIVE LoggedAttempts(_)
LoggedAttempts(log) ==
  IF log = <<>> THEN 0 ELSE Head(log).attempts + LoggedAttempts(Tail(log))

\* No putObject for a file after one resolved, no CreatePurgeTask for a task
\* after it settled.
NoAttemptAfterSuccess ==
  /\ \A i \in Jobs : job[i].putOk => job'[i].puts = job[i].puts
  /\ \A n \in 1..Len(taskLog) : n <= Len(taskLog') /\ taskLog'[n] = taskLog[n]

\* C11 as the code has it: an upload or a purge task is attempted at most
\* Retries + 1 = 4 times, the first attempt and three retries; it is given up
\* after the fourth failure and not before; an operation that succeeded is
\* not attempted again.
C11_AttemptsBounded ==
  /\ [](/\ \A i \in Jobs :
             /\ job[i].puts <= Retries + 1
             /\ (job[i].pc = "failed" /\ job[i].head # "error")
                  => job[i].puts = Retries + 1 /\ ~job[i].putOk
             /\ job[i].putOk => job[i].pc = "done"
        /\ attempt <= Retries
        /\ \A n \in 1..Len(taskLog) :
             /\ taskLog[n].attempts \in 1..(Retries + 1)
             /\ ~taskLog[n].ok => taskLog[n].attempts = Retries + 1
             /\ \A m \in 1..Len(taskLog) :
                  (taskLog[m].plan = taskLog[n].plan /\ taskLog[m].task = taskLog[n].task)
                    => m = n
        /\ teoCalls.purge = LoggedAttempts(taskLog) + attempt)
  /\ [][NoAttemptAfterSuccess]_vars

\* An upload went through on its fourth attempt and a purge task on its
\* second.
C11_Witness ==
  /\ \E i \in Jobs : job[i].pc = "done" /\ job[i].puts = Retries + 1
  /\ \E n \in 1..Len(taskLog) : taskLog[n].ok /\ taskLog[n].attempts = 2

\* C11 as claimed: no upload and no purge task is attempted more than 3
\* times in total.
C11_AtMostThree ==
  /\ \A i \in Jobs : job[i].puts <= 3
  /\ attempt + 1 <= 3
  /\ \A n \in 1..Len(taskLog) : taskLog[n].attempts <= 3

(***************************************************************************)
(* Properties of a failing deploy.                                         *)
(***************************************************************************)
\* uploadFile rejected for file i: putObject failed on every attempt.
Exhausted(i) == job[i].pc = "failed" /\ job[i].head # "error"

\* No deleteMultipleObject and no request to a cache backend was issued.
NoDeleteNoPurge ==
  /\ deleteReqs = <<>>
  /\ cdnReqs = <<>>
  /\ teoCalls = [zones |-> 0, quota |-> 0, purge |-> 0]
  /\ purgePc = "idle" /\ urls = <<>>

\* C12 as claimed: when the upload of a file has failed on every attempt,
\* main has rejected with that error, the key is not in changedFiles, and no
\* delete request and no cache request is issued.
C12_RaisesThatError ==
  \A i \in Jobs : Exhausted(i) =>
    /\ mainPc = "failed" /\ raised = <<"putObject", i>>
    /\ KeyOf(i) \notin Range(changedFiles)
    /\ NoDeleteNoPurge

\* C12 as the code has it: main has rejected, with the error of that upload
\* or with the error of another file's job that rejected before it
\* (Promise.all keeps the first rejection); the key is not in changedFiles,
\* and no delete request and no cache request is issued.
C12_UploadFatal ==
  \A i \in Jobs : Exhausted(i) =>
    /\ mainPc = "failed"
    /\ \/ raised = <<"putObject", i>>
       \/ \E j \in Jobs \ {i} :
            /\ job[j].pc = "failed"
            /\ raised = <<IF Exhausted(j) THEN "putObject" ELSE "headObject", j>>
    /\ KeyOf(i) \notin Range(changedFiles)
    /\ NoDeleteNoPurge

\* One upload was given up after another file was uploaded, in a deploy that
\* had orphans to delete and cache domains to refresh.
C12_Witness ==
  /\ \E i \in Jobs : Exhausted(i) /\ raised = <<"putObject", i>>
  /\ changedFiles # <<>>
  /\ config.removeRemoteFiles /\ filesToDelete # <<>>
  /\ config.cdnDomains # <<>>

\* C13: once main has rejected because a job failed, no headObject and no
\* putObject is issued for a file whose job was still waiting in the
\* limiter's queue at that time.
C13_NoRequestAfterAbort ==
  \A i \in Jobs : job[i].late =>
    /\ job[i].pc \notin {"head", "put"}
    /\ job[i].head = "none"
    /\ job[i].puts = 0

(***************************************************************************)
(* Properties of the EdgeOne pass under failures.                          *)
(***************************************************************************)
\* The main domains that have a zone, in the order the loop visits them.
ZonedDomains == SelectSeq(mainDomains, LAMBDA d : FindZoneId(zones, d) # 0)

\* The place of task t of plan p among all tasks, in the order of the loops.
RECURSIVE TasksBefore(_)
TasksBefore(p) == IF p <= 1 THEN 0 ELSE Len(plans[p - 1].tasks) + TasksBefore(p - 1)

\* C14: a purge task that failed on every attempt does not make the pass
\* throw; the tasks settle in loop order with none left out, so the tasks
\* after a failed one and the main domains after it are still submitted;
\* the pass can always go on, and when it has returned every main domain
\* was resolved and every task of every zone was submitted.
C14_FailedTaskSkipped ==
  /\ \A n \in 1..Len(taskLog) :
       /\ taskLog[n].plan \in 1..Len(plans)
       /\ taskLog[n].task \in 1..Len(plans[taskLog[n].plan].tasks)
       /\ TasksBefore(taskLog[n].plan) + taskLog[n].task = n
  /\ \A p \in 1..Len(plans) : plans[p].mainDomain = ZonedDomains[p]
  /\ purgePc = "threw" =>
       /\ mainPc = "failed"
       /\ raised \in {<<"DescribeZones", 0>>, <<"DescribeContentQuota", 0>>}
  /\ purgePc \in {"validate", "zone", "quota", "task"} => ENABLED NextEdgeOne
  /\ purgePc = "returned" =>
       /\ mainPc = "done" /\ raised = <<>>
       /\ teoCalls.zones = Len(mainDomains)
       /\ Len(plans) = Len(ZonedDomains)
       /\ Len(taskLog) = TasksBefore(Len(plans) + 1)

\* The pass returned after the first task of a.co was given up: the second
\* task of a.co and the task of b.io were submitted all the same.
C14_Witness ==
  /\ purgePc = "returned"
  /\ Len(taskLog) = 3
  /\ ~taskLog[1].ok /\ taskLog[1].attempts = Retries + 1
  /\ taskLog[2].ok /\ taskLog[2].plan = taskLog[1].plan
  /\ taskLog[3].ok /\ taskLog[3].plan > taskLog[1].plan

\* The main domains the loop is through with and found no zone for.
Unzoned == {d \in 1..Len(mainDomains) : d < domIdx /\ FindZoneId(zones, mainDomains[d]) = 0}

\* C15 as claimed: once a main domain had no matching zone the pass has
\* thrown, and no quota was fetched and no task built for that main domain
\* or for one after it.
C15_ZoneNotFoundRaises ==
  \A d \in Unzoned :
    /\ purgePc = "threw" /\ mainPc = "failed"
    /\ \A p \in 1..Len(plans) : \A e \in d..Len(mainDomains) :
         plans[p].mainDomain # mainDomains[e]

\* C15 as the code has it: a main domain without a matching zone is skipped
\* without throwing (no quota fetch and no task for it) and the loop goes on
\* with the main domains after it; the pass throws only when a DescribeZones
\* or DescribeContentQuota request is rejected.
C15_ZoneNotFoundSkipped ==
  config.cache_type = "edgeone" =>
  /\ \A p \in 1..Len(plans) :
       /\ FindZoneId(zones, plans[p].mainDomain) # 0
       /\ plans[p].zoneId = FindZoneId(zones, plans[p].mainDomain)
  /\ teoCalls.quota =
       Len(plans) + (IF raised = <<"DescribeContentQuota", 0>> THEN 1 ELSE 0)
  /\ \A n \in 1..Len(taskLog) : taskLog[n].plan \in 1..Len(plans)
  /\ purgePc = "threw" =>
       raised \in {<<"DescribeZones", 0>>, <<"DescribeContentQuota", 0>>}
  /\ (Unzoned # {} /\ raised = <<>>) => mainPc \in {"purge", "done"}
  /\ purgePc = "returned" =>
       /\ teoCalls.zones = Len(mainDomains)
       /\ [p \in 1..Len(plans) |-> plans[p].mainDomain] = ZonedDomains
       /\ \A p \in 1..Len(plans) : \E n \in 1..Len(taskLog) : taskLog[n].plan = p

\* xa.co had no zone, and a.co after it got its quota fetched and its task
\* submitted before the pass returned.
C15_Witness ==
  /\ purgePc = "returned"
  /\ mainDomains = <<H_xa, H_a>>
  /\ Unzoned = {1}
  /\ Len(plans) = 1 /\ plans[1].mainDomain = H_a
  /\ taskLog # <<>>

\* C16: the URLs counted and submitted under a main domain are exactly the
\* URLs whose hostname has that main domain as its last two labels; a URL of
\* a host that merely ends with the same characters is not among them.
C16_PartitionByMainDomain ==
  PlanJustBuilt =>
    /\ LastPlan.count = Cardinality(PendingOf(LastPlan.mainDomain))
    /\ \A t \in 1..Len(LastPlan.tasks) :
         LastPlan.tasks[t].type = "purge_url" =>
           \A n \in 1..Len(LastPlan.tasks[t].targets) :
             MainDomainOf(Hostname(LastPlan.tasks[t].targets[n])) = LastPlan.mainDomain

(***************************************************************************)
(* Properties of the order of the phases.                                  *)
(***************************************************************************)
\* Every per-file job has resolved and the limiter is idle.
UploadsComplete ==
  /\ \A i \in Jobs : job[i].pc \in {"skipped", "done"}
  /\ queue = <<>> /\ activeCount = 0

\* listCosFiles got its last page: the last answer carried no token.
ListingComplete ==
  /\ listReqs # <<>> /\ token = 0 /\ ~pageInFlight
  /\ Len(listReqs) * MaxKeys >= Len(contents)

\* A request went to a cache backend.
CacheRequested ==
  cdnReqs # <<>> \/ teoCalls # [zones |-> 0, quota |-> 0, purge |-> 0]

\* C17: a cache request is issued, and the URLs are derived, only after every
\* per-file job has resolved, and changedFiles does not change from the URL
\* derivation on; a delete request is issued only after the listing got its
\* last page and every per-file job has resolved.
C17_PhaseOrder ==
  /\ []((CacheRequested \/ purgePc # "idle" \/ mainPc \in {"derive", "purge", "done"})
          => UploadsComplete)
  /\ []((deleteReqs # <<>> \/ (mainPc = "reconcile" /\ config.removeRemoteFiles))
          => UploadsComplete /\ ListingComplete)
  /\ [][(mainPc \in {"derive", "purge", "done"} \/ purgePc # "idle")
          => changedFiles' = changedFiles]_vars

\* A deploy listed the bucket in two pages, uploaded two files, deleted an
\* orphan and then sent a cache request.
C17_Witness ==
  /\ Len(listReqs) >= 2
  /\ Len(changedFiles) = 2
  /\ deleteReqs # <<>>
  /\ CacheRequested

(***************************************************************************)
(* Properties of the remote listing.                                       *)
(***************************************************************************)
\* C18: after a getBucket request was rejected main has rejected with that
\* error and does nothing more: the failed request is the last one, no
\* upload job was started, and no delete request and no cache request is
\* issued, whatever the pages fetched before held.
C18_ListingFailureAborts ==
  raised = <<"getBucket", 0>> =>
    /\ mainPc = "failed"
    /\ ~ENABLED Next
    /\ listReqs[Len(listReqs)] = token
    /\ Len(contents) = (Len(listReqs) - 1) * MaxKeys
    /\ ~pageInFlight /\ queue = <<>> /\ activeCount = 0
    /\ \A i \in Jobs : job[i] = NewJob
    /\ changedFiles = <<>>
    /\ NoDeleteNoPurge

\* The second page fetch failed after the first page had listed an orphan.
C18_Witness ==
  /\ raised = <<"getBucket", 0>>
  /\ Len(listReqs) = 2
  /\ \E n \in 1..Len(contents) : contents[n] \notin localFileKeys

\* Page fetches waiting in the limiter's queue.
PagesQueued == Cardinality({n \in 1..Len(queue) : queue[n] = 0})

\* C19: the page fetches go out one at a time, the first without a token and
\* the n-th with the token the page before it returned (the store hands out
\* the position after the page, (n - 1) * MaxKeys); what is fetched so far is
\* the listing up to there, in order; the loop ends with the first page that
\* carries no token, also when that is the empty first page of an empty
\* bucket, and listCosFiles then returns every key of the bucket once, in
\* listing order.
C19_ListingPagination ==
  /\ PagesQueued + (IF pageInFlight THEN 1 ELSE 0) <= 1
  /\ (PagesQueued = 1 \/ pageInFlight) <=> mainPc = "listWait"
  /\ \A n \in 1..Len(listReqs) : listReqs[n] = (n - 1) * MaxKeys
  /\ \A n, m \in 1..Len(contents) : contents[n] = contents[m] => n = m
  /\ mainPc \in {"list", "listWait"} =>
       /\ Len(contents) = Len(listReqs) * MaxKeys
       /\ contents = SubSeq(BucketKeys, 1, Len(contents))
       /\ Len(contents) < Len(BucketKeys) \/ listReqs = <<>>
       /\ token = Len(contents)
  /\ (mainPc = "submit" /\ config.removeRemoteFiles) =>
       /\ contents = BucketKeys
       /\ token = 0
       /\ Len(listReqs) >= 1
       /\ (Len(listReqs) - 1) * MaxKeys < Len(BucketKeys) \/ BucketKeys = <<>>
       /\ Len(listReqs) * MaxKeys >= Len(BucketKeys)
  /\ (mainPc \in {"join", "reconcile", "derive", "purge", "done"}
        \/ (mainPc = "failed" /\ raised # <<"getBucket", 0>> /\ raised # <<"getFiles", 0>>))
       => Len(listReqs) = IF ~config.removeRemoteFiles THEN 0
                          ELSE IF contents = <<>> THEN 1
                          ELSE CeilDiv(Len(contents), MaxKeys)

\* listCosFiles returned the three keys of the bucket after two pages.
C19_Witness ==
  /\ mainPc = "submit"
  /\ listReqs = <<0, MaxKeys>>
  /\ Len(contents) = MaxKeys + 1
  /\ contents = BucketKeys

(***************************************************************************)
(* Properties of what drives the cache invalidation.                       *)
(***************************************************************************)
\* The keys sent for deletion.
DeletedKeys == UNION {Range(deleteReqs[n]) : n \in 1..Len(deleteReqs)}

\* The URLs the domain rules would give key k.
UrlsOfKey(k) ==
  {ResolveUrl(UrlPathOf(k, config.refreshIndexPage), config.cdnDomains[r].domain) :
     r \in 1..Len(config.cdnDomains)}

\* C20: while no file is uploaded, or without a domain rule, no URL is
\* derived, no cache backend is called and no request goes to one, deleted
\* objects or not; every URL derived comes from an uploaded key, none from a
\* deleted key, and the cache requests carry derived URLs only.
C20_OnlyUploadsInvalidate ==
  /\ (changedFiles = <<>> \/ config.cdnDomains = <<>>) =>
       /\ ~CacheRequested
       /\ purgePc = "idle"
       /\ urls = <<>> /\ emitted = <<>>
  /\ \A n \in 1..Len(emitted) :
       /\ emitted[n].key \in Range(changedFiles)
       /\ emitted[n].key \notin DeletedKeys
  /\ urls = [n \in 1..Len(emitted) |-> emitted[n].url]
  /\ \A k \in DeletedKeys : UrlsOfKey(k) \cap Range(urls) = {}
  /\ \A n \in 1..Len(cdnReqs) : Range(cdnReqs[n]) \subseteq Range(urls)
  /\ \A p \in 1..Len(plans) : \A t \in 1..Len(plans[p].tasks) :
       plans[p].tasks[t].type = "purge_url"
         => Range(plans[p].tasks[t].targets) \subseteq Range(urls)

\* A deploy with domain rules deleted an orphan, found its file unchanged
\* and ended without calling a cache backend.
C20_Witness ==
  /\ mainPc = "done"
  /\ deleteReqs # <<>>
  /\ changedFiles = <<>>
  /\ config.cdnDomains # <<>>
  /\ \E i \in Jobs : job[i].pc = "skipped"
  /\ purgePc = "idle"

====
